---- MODULE Spec2Model ----
(***************************************************************************)
(* Model of the smart WebP conversion pipeline                             *)
(*   apps/api/src/lib/smart-webp.ts      determineStrategy,                *)
(*                                       convertWithStrategy, smartWebP    *)
(*   lib/image-analysis (analyzeImage)   the content classifier            *)
(*   apps/api/src/services (ImageService) convert, batchConvert            *)
(*                                                                         *)
(* Scales: ssim is kept in thousandths (0.96 -> 960, 1.0 -> 1000), entropy *)
(* in tenths (4.5 -> 45, 6 -> 60).  sharp (decode, encode, composite) and  *)
(* ssim.js are the environment: every call either throws or returns, and   *)
(* the encoder and the comparator return the same value for the same input.*)
(***************************************************************************)
EXTENDS Integers, Sequences, FiniteSets, TLC

VARIABLES
    mode,       \* entry point: "convert" (POST /convert) or "batch" (batchConvert)
    images,     \* the input list: sequence of [id]
    force,      \* forceConvert handed to smartWebP
    storageKey, \* whether ImageService.convert was given a storage key
    reqStrategy, \* the strategy string of the /convert request body
    idx,        \* 1-based position of the for-loop of batchConvert
    pc,         \* position of the running call
    orig,       \* the bytes fetch returned for the current image
    analysis,   \* analyzeImage's result for the current image
    strategy,   \* determineStrategy's result for the current image
    qi,         \* 1-based position of the for-loop over strategy.qualities
    webp,       \* the candidate buffer of the current loop iteration
    calls,      \* Encoder and Comparator calls made for the current image, in order
    result,     \* what smartWebP returned for the current image
    outcome,    \* how ImageService.convert ended for the current image
    convLog,    \* how ImageService.convert ended for each image, in order
    results,    \* the results array of batchConvert
    conc,       \* two smartWebP calls in flight at once: the locals of each call
    job,        \* MigrationService: the Job object kept in the jobs map
    run,        \* MigrationService: position and locals of processJob for that job
    anl,        \* ImageService.analyze: position and locals of one call
    proc,       \* ProcessingModal: its props, its state and its requests in flight
    modal       \* WebPComparisonModal: its props, its state and its requests in flight

\* what the caller passes in; no step of the program assigns to it
inputVars == <<mode, images, force, storageKey, reqStrategy>>

\* the state of the other parts of the system, which no conversion step touches
otherVars == <<conc, job, run, anl, proc, modal>>

\* the state of ImageService.analyze and of the two dialogs of the frontend
uiVars == <<anl, proc, modal>>

\* the state of one /convert or /batch-convert request
convVars == <<inputVars, idx, pc, orig, analysis, strategy,
              qi, webp, calls, result, outcome, convLog, results>>

vars == <<convVars, otherVars>>

----------------------------------------------------------------------------
(* Bounds and input domains *)

MaxBatch == 2

Ids == {"a", "b"}
Formats == {"webp", "jpeg"}
Sizes == {199999, 200000}
Entropies == {44, 45, 60, 61}
Means == {59, 60}
Scores == {950, 960, 970}
\* what the /convert request may carry as strategy: nothing or the analysis'
\* recommendation ("auto"), or the review dialog's 'quality-82'
RequestedStrategies == {"auto", "quality-82"}

(* Program constants *)
SkipSizeLimit == 200000
FlatEntropy == 45
HighDetailEntropy == 60
DarkMean == 60
SsimThreshold == 960
SsimOne == 1000
FullQuality == 100
LosslessEffort == 6
CarefulNearLossless == 60

RECURSIVE SeqsUpTo(_, _)
SeqsUpTo(S, n) ==
    IF n = 0 THEN {<<>>}
    ELSE LET shorter == SeqsUpTo(S, n - 1)
         IN  shorter \cup {Append(s, x) : s \in {t \in shorter : Len(t) = n - 1}, x \in S}

\* the input lists are the lists of at most MaxBatch ids in which neighbours differ
NeighboursDiffer(s) == \A i \in 1..(Len(s) - 1) : s[i] # s[i + 1]

----------------------------------------------------------------------------
(* Buffers.  A buffer is described by how it was produced. *)

NoOptions == [lossless |-> FALSE, effort |-> 0, smartSubsample |-> FALSE, nearLossless |-> 0]

OrigBuf  == [kind |-> "orig",  q |-> 0, opts |-> NoOptions]
EmptyBuf == [kind |-> "empty", q |-> 0, opts |-> NoOptions]

\* image.webp(options).toBuffer(): deterministic in the source bytes and the options
Encode(q, opts) == [kind |-> "webp", q |-> q, opts |-> opts]

\* generateDiffMap(original, compressed)
DiffOf(buf) == [kind |-> "diff", q |-> buf.q, opts |-> buf.opts]

\* Buffer.toString('base64')
Base64(buf) == [b64 |-> buf]

NoImage    == [httpOk |-> TRUE, decodable |-> FALSE, format |-> "none", size |-> 0,
               entropy |-> 0, mean |-> 0]
NoAnalysis == [entropy |-> 0, mean |-> 0, isFlat |-> FALSE, isDark |-> FALSE,
               isHighDetail |-> FALSE, done |-> FALSE]
NoStrategy == [type |-> "none", hasQualities |-> FALSE, qualities |-> <<>>, options |-> NoOptions]
NoResult   == [buffer |-> EmptyBuf, strategy |-> "none", quality |-> 0, ssim |-> 0,
               accepted |-> FALSE, diffMap |-> EmptyBuf]
NoOutcome  == [ended |-> FALSE, ok |-> FALSE, error |-> ""]

\* jobs.get(jobId) === undefined, and no processJob running
NoJob == [type |-> "none", status |-> "none", items |-> <<>>, total |-> 0,
          completed |-> 0, failed |-> 0, current |-> "", results |-> <<>>,
          errors |-> <<>>, endTimeSet |-> FALSE]
\* no call of ImageService.analyze
NoAnl == [pc |-> "idle", body |-> NoImage, analysis |-> NoAnalysis, format |-> "none",
          recommendation |-> "none", classification |-> "none", outcome |-> NoOutcome]
\* the ProcessingModal before its first render
NoProc == [variant |-> "none", isOpen |-> FALSE, hasItems |-> FALSE, renders |-> 0,
           jobId |-> 0, error |-> FALSE, executes |-> 0, pending |-> {}]
\* the WebPComparisonModal before its first render with isOpen
NoModal == [isOpen |-> FALSE, imageUrl |-> "", opens |-> 0, retries |-> 0,
            step |-> "analyzing", analysis |-> "", result |-> [url |-> "", opening |-> 0],
            error |-> FALSE, pending |-> {}]
NoRun == [pc |-> "idle", list |-> <<>>, k |-> 0, imgs |-> 0, img |-> 0,
          started |-> <<>>, startedAtCancel |-> -1, lastCancel |-> "none"]

----------------------------------------------------------------------------
(* Pure functions of the source *)

analyzeImage_Inclusive(entropy, mean) ==
    [entropy |-> entropy, mean |-> mean,
     isFlat |-> entropy <= FlatEntropy,
     isDark |-> mean <= DarkMean,
     isHighDetail |-> entropy >= HighDetailEntropy,
     done |-> TRUE]

analyzeImage(entropy, mean) ==
    [entropy |-> entropy, mean |-> mean,
     isFlat |-> entropy < FlatEntropy,
     isDark |-> mean < DarkMean,
     isHighDetail |-> entropy > HighDetailEntropy,
     done |-> TRUE]

\* determineStrategy: currentFormat === 'webp' && currentSize < 200_000
IsOptimizedWebP_Inclusive(currentFormat, currentSize) ==
    currentFormat = "webp" /\ currentSize <= SkipSizeLimit

IsOptimizedWebP(currentFormat, currentSize) ==
    currentFormat = "webp" /\ currentSize < SkipSizeLimit

determineStrategy_PriorityBug(an, currentFormat, currentSize) ==
    IF IsOptimizedWebP(currentFormat, currentSize)
    THEN [type |-> "skip", hasQualities |-> FALSE, qualities |-> <<>>, options |-> NoOptions]
    ELSE IF an.isDark
    THEN [type |-> "careful", hasQualities |-> TRUE, qualities |-> <<82, 80, 78>>,
          options |-> [lossless |-> FALSE, effort |-> 0, smartSubsample |-> TRUE,
                       nearLossless |-> CarefulNearLossless]]
    ELSE IF an.isFlat
    THEN [type |-> "lossless", hasQualities |-> FALSE, qualities |-> <<>>,
          options |-> [lossless |-> TRUE, effort |-> LosslessEffort,
                       smartSubsample |-> FALSE, nearLossless |-> 0]]
    ELSE IF an.isHighDetail
    THEN [type |-> "adaptive", hasQualities |-> TRUE, qualities |-> <<82, 78, 74, 70>>,
          options |-> NoOptions]
    ELSE [type |-> "adaptive", hasQualities |-> TRUE, qualities |-> <<78, 74, 70, 66>>,
          options |-> NoOptions]

determineStrategy(an, currentFormat, currentSize) ==
    IF IsOptimizedWebP(currentFormat, currentSize)
    THEN [type |-> "skip", hasQualities |-> FALSE, qualities |-> <<>>, options |-> NoOptions]
    ELSE IF an.isFlat
    THEN [type |-> "lossless", hasQualities |-> FALSE, qualities |-> <<>>,
          options |-> [lossless |-> TRUE, effort |-> LosslessEffort,
                       smartSubsample |-> FALSE, nearLossless |-> 0]]
    ELSE IF an.isDark
    THEN [type |-> "careful", hasQualities |-> TRUE, qualities |-> <<82, 80, 78>>,
          options |-> [lossless |-> FALSE, effort |-> 0, smartSubsample |-> TRUE,
                       nearLossless |-> CarefulNearLossless]]
    ELSE IF an.isHighDetail
    THEN [type |-> "adaptive", hasQualities |-> TRUE, qualities |-> <<82, 78, 74, 70>>,
          options |-> NoOptions]
    ELSE [type |-> "adaptive", hasQualities |-> TRUE, qualities |-> <<78, 74, 70, 66>>,
          options |-> NoOptions]

\* smartWebP: if (strategy.type === 'skip' && !forceConvert)
SkipShortCircuit_Never(st, forceConvert) == FALSE

SkipShortCircuit(st, forceConvert) == st.type = "skip" /\ ~forceConvert

\* smartWebP: the record returned by the short-circuit
SkipReturn == [buffer |-> OrigBuf, strategy |-> "skip", quality |-> FullQuality,
               ssim |-> SsimOne, accepted |-> TRUE, diffMap |-> EmptyBuf]

\* convertWithStrategy: the record returned for strategy.type === 'skip'
SkipResult(buffer) == [buffer |-> buffer, strategy |-> "skip", quality |-> FullQuality,
                       ssim |-> SsimOne, accepted |-> TRUE, diffMap |-> EmptyBuf]

\* convertWithStrategy: the record returned for strategy.type === 'lossless'
LosslessResult_Unscored(buf) ==
    [buffer |-> buf, strategy |-> "lossless", quality |-> FullQuality,
     ssim |-> 0, accepted |-> TRUE, diffMap |-> EmptyBuf]

LosslessResult(buf) == [buffer |-> buf, strategy |-> "lossless", quality |-> FullQuality,
                        ssim |-> SsimOne, accepted |-> TRUE, diffMap |-> EmptyBuf]

\* convertWithStrategy: if (ssim > 0.96)
AcceptsScore_Inclusive(ssim) == ssim >= SsimThreshold

AcceptsScore(ssim) == ssim > SsimThreshold

\* convertWithStrategy: the record returned from inside the loop
AcceptedResult(buf, type, quality, ssim) ==
    [buffer |-> buf, strategy |-> type, quality |-> quality, ssim |-> ssim,
     accepted |-> TRUE, diffMap |-> EmptyBuf]

\* convertWithStrategy: the record returned after the loop
FallbackResult_Accepted(buf, quality, ssim) ==
    [buffer |-> buf, strategy |-> "fallback", quality |-> quality, ssim |-> ssim,
     accepted |-> TRUE, diffMap |-> EmptyBuf]

FallbackResult(buf, quality, ssim) ==
    [buffer |-> buf, strategy |-> "fallback", quality |-> quality, ssim |-> ssim,
     accepted |-> FALSE, diffMap |-> EmptyBuf]

\* convertWithStrategy: const fallbackQuality = strategy.qualities[0]
FallbackQuality_Last(st) == st.qualities[Len(st.qualities)]

FallbackQuality(st) == st.qualities[1]

\* convertWithStrategy: the quality of the loop's iteration number i (for ... of)
CandidateAt_Ascending(st, i) == st.qualities[Len(st.qualities) - i + 1]

CandidateAt(st, i) == st.qualities[i]

\* convertWithStrategy: the loop moves on to the next element of strategy.qualities
NextCandidate_Stuck(i) == i

NextCandidate(i) == i + 1

\* the score the comparator returned earlier for this very buffer, 0 when it never saw it
Measured(buf) ==
    LET seen == {i \in 1..Len(calls) : calls[i].op = "cmp" /\ calls[i].ok /\ calls[i].buf = buf}
    IN  IF seen = {} THEN 0 ELSE calls[CHOOSE i \in seen : TRUE].score

EncCall(buf, ok) == [op |-> "enc", buf |-> buf, ok |-> ok, score |-> 0]
CmpCall(buf, ok, score) == [op |-> "cmp", buf |-> buf, ok |-> ok, score |-> score]

----------------------------------------------------------------------------
(* batchConvert's bookkeeping *)

\* batchConvert: results.push({ id, success: true, result: {...} })
SuccessEntry(img, res) ==
    [id |-> img.id, success |-> TRUE, error |-> "",
     strategy |-> res.strategy, quality |-> res.quality, ssim |-> res.ssim,
     accepted |-> res.accepted,
     convertedBlob |-> Base64(res.buffer), diffBlob |-> Base64(res.diffMap)]

\* batchConvert: results.push({ id, success: false, error: e.message })
FailureEntry_AsSuccess(img, msg) ==
    [id |-> img.id, success |-> TRUE, error |-> msg,
     strategy |-> "none", quality |-> 0, ssim |-> 0, accepted |-> FALSE,
     convertedBlob |-> Base64(EmptyBuf), diffBlob |-> Base64(EmptyBuf)]

FailureEntry(img, msg) ==
    [id |-> img.id, success |-> FALSE, error |-> msg,
     strategy |-> "none", quality |-> 0, ssim |-> 0, accepted |-> FALSE,
     convertedBlob |-> Base64(EmptyBuf), diffBlob |-> Base64(EmptyBuf)]

\* batchConvert: the loop position after the catch block
AfterCatch_Abort(i, n) == n + 1

AfterCatch(i, n) == i + 1

----------------------------------------------------------------------------
(* How a call of ImageService.convert ends *)

\* ImageService.convert returns res to its caller
Deliver(res) ==
    /\ outcome' = [ended |-> TRUE, ok |-> TRUE, error |-> ""]
    /\ convLog' = Append(convLog, [ok |-> TRUE, error |-> ""])
    /\ IF mode = "batch"
       THEN /\ results' = Append(results, SuccessEntry(images[idx], res))
            /\ idx' = idx + 1
            /\ pc' = "loop"
       ELSE /\ pc' = "done"
            /\ UNCHANGED <<results, idx>>

\* ImageService.convert throws an error with this message
Throw_Swallowed(msg) == Deliver(NoResult)

Throw(msg) ==
    /\ outcome' = [ended |-> TRUE, ok |-> FALSE, error |-> msg]
    /\ convLog' = Append(convLog, [ok |-> FALSE, error |-> msg])
    /\ IF mode = "batch"
       THEN /\ results' = Append(results, FailureEntry(images[idx], msg))
            /\ idx' = AfterCatch(idx, Len(images))
            /\ pc' = "loop"
       ELSE /\ pc' = "done"
            /\ UNCHANGED <<results, idx>>

\* smartWebP returns res to ImageService.convert
Return(res) ==
    /\ result' = res
    /\ IF storageKey
       THEN /\ pc' = "upload"
            /\ UNCHANGED <<outcome, convLog, results, idx>>
       ELSE Deliver(res)

----------------------------------------------------------------------------
Init ==
    /\ mode \in {"convert", "batch"}
    /\ images \in {[i \in DOMAIN s |-> [id |-> s[i]]] : s \in {t \in SeqsUpTo(Ids, MaxBatch) : NeighboursDiffer(t)}}
    /\ mode = "convert" => Len(images) = 1
    /\ force \in BOOLEAN
    /\ storageKey \in BOOLEAN
    /\ reqStrategy \in RequestedStrategies
    /\ mode = "batch" => ~force /\ ~storageKey /\ reqStrategy = "auto"
    /\ idx = 1
    /\ pc = IF mode = "batch" THEN "loop" ELSE "prefetch"
    /\ orig = NoImage
    /\ analysis = NoAnalysis
    /\ strategy = NoStrategy
    /\ qi = 0
    /\ webp = EmptyBuf
    /\ calls = <<>>
    /\ result = NoResult
    /\ outcome = NoOutcome
    /\ convLog = <<>>
    /\ results = <<>>
    /\ conc = <<>>
    /\ job = NoJob
    /\ run = NoRun
    /\ anl = NoAnl
    /\ proc = NoProc
    /\ modal = NoModal

\* batchConvert: for (const img of images) { try { await this.convert(img.url) ...
BatchNext ==
    /\ mode = "batch"
    /\ pc = "loop"
    /\ idx <= Len(images)
    /\ pc' = "fetch"
    /\ orig' = NoImage
    /\ analysis' = NoAnalysis
    /\ strategy' = NoStrategy
    /\ qi' = 0
    /\ webp' = EmptyBuf
    /\ calls' = <<>>
    /\ result' = NoResult
    /\ outcome' = NoOutcome
    /\ UNCHANGED <<inputVars, otherVars, idx, convLog, results>>

\* batchConvert: return results
BatchReturn ==
    /\ mode = "batch"
    /\ pc = "loop"
    /\ idx > Len(images)
    /\ pc' = "done"
    /\ UNCHANGED <<inputVars, otherVars, idx, orig, analysis, strategy,
                   qi, webp, calls, result, outcome, convLog, results>>

\* the bodies a response with a non-success status may carry: an error page,
\* or a placeholder picture
ErrorBodies ==
    {[httpOk |-> FALSE, decodable |-> FALSE, format |-> "none", size |-> 199999,
      entropy |-> 0, mean |-> 0],
     [httpOk |-> FALSE, decodable |-> TRUE, format |-> "jpeg", size |-> 199999,
      entropy |-> 45, mean |-> 60]}

\* the bodies a response with a success status may carry
ImageBodies ==
    {[httpOk |-> TRUE, decodable |-> TRUE, format |-> f, size |-> s, entropy |-> e, mean |-> m] :
        f \in Formats, s \in Sizes, e \in Entropies, m \in Means}
    \cup {[httpOk |-> TRUE, decodable |-> FALSE, format |-> "none", size |-> s,
           entropy |-> 0, mean |-> 0] : s \in Sizes}

\* router.post('/convert'): the route's own fetch(imageUrl) and its response.ok test
RoutePrefetch ==
    /\ pc = "prefetch"
    /\ \/ /\ pc' = "fetch"
          /\ UNCHANGED outcome
       \/ /\ pc' = "done"
          /\ outcome' = [ended |-> TRUE, ok |-> FALSE,
                         error |-> "Failed to fetch image from URL"]
       \/ /\ pc' = "done"
          /\ outcome' = [ended |-> TRUE, ok |-> FALSE, error |-> "fetch failed"]
    /\ UNCHANGED <<inputVars, otherVars, idx, orig, analysis, strategy, qi, webp, calls, result,
                   convLog, results>>

\* smartWebP: fetch(imageUrl), response.arrayBuffer(); response.ok is not looked at
Fetch ==
    /\ pc = "fetch"
    /\ \/ /\ orig' \in ImageBodies \cup ErrorBodies
          /\ pc' = "analyze"
          /\ UNCHANGED <<outcome, convLog, results, idx>>
       \/ /\ Throw("fetch failed")
          /\ UNCHANGED orig
    /\ UNCHANGED <<inputVars, otherVars, analysis, strategy, qi, webp,
                   calls, result>>

\* smartWebP: analyzeImage(originalBuffer)
Analyze ==
    /\ pc = "analyze"
    /\ IF orig.decodable
       THEN /\ analysis' = analyzeImage(orig.entropy, orig.mean)
            /\ pc' = "select"
            /\ UNCHANGED <<outcome, convLog, results, idx>>
       ELSE /\ Throw("unsupported image format")
            /\ UNCHANGED analysis
    /\ UNCHANGED <<inputVars, otherVars, orig, strategy, qi, webp,
                   calls, result>>

\* smartWebP: metadata, determineStrategy, the skip short-circuit, and
\* convertWithStrategy up to its first await
Select ==
    /\ pc = "select"
    /\ LET st == determineStrategy(analysis, orig.format, orig.size)
       IN  /\ strategy' = st
           /\ IF SkipShortCircuit(st, force)
              THEN /\ Return(SkipReturn)
                   /\ UNCHANGED qi
              ELSE IF st.type = "skip"
              THEN /\ result' = SkipResult(OrigBuf)
                   /\ pc' = "diff"
                   /\ UNCHANGED <<qi, outcome, convLog, results, idx>>
              ELSE IF st.type = "lossless"
              THEN /\ pc' = "lossless"
                   /\ UNCHANGED <<qi, result, outcome, convLog, results, idx>>
              ELSE IF st.hasQualities
              THEN /\ qi' = 1
                   /\ pc' = "encode"
                   /\ UNCHANGED <<result, outcome, convLog, results, idx>>
              ELSE /\ Throw("Invalid strategy")
                   /\ UNCHANGED <<qi, result>>
    /\ UNCHANGED <<inputVars, otherVars, orig, analysis, webp, calls>>

\* convertWithStrategy: image.webp(strategy.options).toBuffer() of the lossless branch
EncodeLossless ==
    /\ pc = "lossless"
    /\ LET buf == Encode(0, strategy.options)
       IN  \/ /\ calls' = Append(calls, EncCall(buf, TRUE))
              /\ result' = LosslessResult(buf)
              /\ pc' = "diff"
              /\ UNCHANGED <<outcome, convLog, results, idx>>
           \/ /\ calls' = Append(calls, EncCall(buf, FALSE))
              /\ Throw("encode failed")
              /\ UNCHANGED result
    /\ UNCHANGED <<inputVars, otherVars, orig, analysis, strategy, qi, webp>>

\* convertWithStrategy: image.webp({quality, ...strategy.options}).toBuffer() in the loop
EncodeCandidate ==
    /\ pc = "encode"
    /\ LET buf == Encode(CandidateAt(strategy, qi), strategy.options)
       IN  \/ /\ calls' = Append(calls, EncCall(buf, TRUE))
              /\ webp' = buf
              /\ pc' = "compare"
              /\ UNCHANGED <<outcome, convLog, results, idx>>
           \/ /\ calls' = Append(calls, EncCall(buf, FALSE))
              /\ Throw("encode failed")
              /\ UNCHANGED webp
    /\ UNCHANGED <<inputVars, otherVars, orig, analysis, strategy, qi, result>>

\* convertWithStrategy: compareSSIM(originalBuffer, webp) in the loop, the test and
\* the loop's step
CompareCandidate ==
    /\ pc = "compare"
    /\ \/ \E s \in Scores :
            /\ Measured(webp) # 0 => s = Measured(webp)
            /\ calls' = Append(calls, CmpCall(webp, TRUE, s))
            /\ IF AcceptsScore(s)
               THEN /\ result' = AcceptedResult(webp, strategy.type,
                                                CandidateAt(strategy, qi), s)
                    /\ pc' = "diff"
                    /\ UNCHANGED qi
               ELSE IF qi < Len(strategy.qualities)
               THEN /\ qi' = NextCandidate(qi)
                    /\ pc' = "encode"
                    /\ UNCHANGED result
               ELSE /\ pc' = "fbEncode"
                    /\ UNCHANGED <<qi, result>>
            /\ UNCHANGED <<outcome, convLog, results, idx>>
       \/ /\ calls' = Append(calls, CmpCall(webp, FALSE, 0))
          /\ Throw("compare failed")
          /\ UNCHANGED <<qi, result>>
    /\ UNCHANGED <<inputVars, otherVars, orig, analysis, strategy, webp>>

\* convertWithStrategy: the fallback's image.webp({quality: fallbackQuality, ...})
EncodeFallback ==
    /\ pc = "fbEncode"
    /\ LET buf == Encode(FallbackQuality(strategy), strategy.options)
       IN  \/ /\ calls' = Append(calls, EncCall(buf, TRUE))
              /\ webp' = buf
              /\ pc' = "fbCompare"
              /\ UNCHANGED <<outcome, convLog, results, idx>>
           \/ /\ calls' = Append(calls, EncCall(buf, FALSE))
              /\ Throw("encode failed")
              /\ UNCHANGED webp
    /\ UNCHANGED <<inputVars, otherVars, orig, analysis, strategy, qi, result>>

\* convertWithStrategy: the fallback's compareSSIM(originalBuffer, webp) and return
CompareFallback ==
    /\ pc = "fbCompare"
    /\ \/ \E s \in Scores :
            /\ Measured(webp) # 0 => s = Measured(webp)
            /\ calls' = Append(calls, CmpCall(webp, TRUE, s))
            /\ result' = FallbackResult(webp, FallbackQuality(strategy), s)
            /\ pc' = "diff"
            /\ UNCHANGED <<outcome, convLog, results, idx>>
       \/ /\ calls' = Append(calls, CmpCall(webp, FALSE, 0))
          /\ Throw("compare failed")
          /\ UNCHANGED result
    /\ UNCHANGED <<inputVars, otherVars, orig, analysis, strategy, qi, webp>>

\* smartWebP: generateDiffMap(originalBuffer, result.buffer) and return
GenerateDiff ==
    /\ pc = "diff"
    /\ \/ Return([result EXCEPT !.diffMap = DiffOf(result.buffer)])
       \/ /\ Throw("diff failed")
          /\ UNCHANGED result
    /\ UNCHANGED <<inputVars, otherVars, orig, analysis, strategy, qi,
                   webp, calls>>

\* ImageService.convert: StorageService.upload(storageKey, result.buffer, ...)
Upload ==
    /\ pc = "upload"
    /\ \/ Deliver(result)
       \/ Throw("upload failed")
    /\ UNCHANGED <<inputVars, otherVars, orig, analysis, strategy, qi,
                   webp, calls, result>>

Next ==
    \/ BatchNext
    \/ BatchReturn
    \/ RoutePrefetch
    \/ Fetch
    \/ Analyze
    \/ Select
    \/ EncodeLossless
    \/ EncodeCandidate
    \/ CompareCandidate
    \/ EncodeFallback
    \/ CompareFallback
    \/ GenerateDiff
    \/ Upload

Spec == Init /\ [][Next]_vars

\* One POST /convert request on its own.  Every awaited call (fetch, sharp,
\* ssim, upload) settles, so a step that is possible is eventually taken.
SingleInit == Init /\ mode = "convert"

SingleNext ==
    \/ RoutePrefetch
    \/ Fetch
    \/ Analyze
    \/ Select
    \/ EncodeLossless
    \/ EncodeCandidate
    \/ CompareCandidate
    \/ EncodeFallback
    \/ CompareFallback
    \/ GenerateDiff
    \/ Upload

SingleFairSpec == SingleInit /\ [][SingleNext]_vars /\ WF_vars(SingleNext)

----------------------------------------------------------------------------
(* Vocabulary of the properties *)

\* convertWithStrategy or smartWebP has produced a result record for the current image
HasResult == result.strategy # "none"

\* rule 1 of the selector applies to the fetched bytes
SkipRuleFires == orig.decodable /\ orig.format = "webp" /\ orig.size < 200000

\* the current image is past strategy selection
Selected == strategy.type # "none"

EncCalls == {i \in 1..Len(calls) : calls[i].op = "enc"}
CmpCalls == {i \in 1..Len(calls) : calls[i].op = "cmp"}

----------------------------------------------------------------------------
\* C1: every result tagged 'adaptive' or 'careful' with accepted = true reports
\* an ssim strictly above 0.96, and a candidate that scored exactly 0.96 is
\* never the accepted one.
C1_AcceptedAboveThreshold ==
    (HasResult /\ result.strategy \in {"adaptive", "careful"} /\ result.accepted) =>
        /\ result.ssim > 960
        /\ \A i \in CmpCalls : calls[i].score = 960 => calls[i].buf # result.buffer

C1_Witness ==
    /\ HasResult /\ result.strategy = "adaptive" /\ result.accepted
    /\ result.ssim = 970
    /\ \E i \in CmpCalls : calls[i].ok /\ calls[i].score = 960
    /\ outcome.ok

\* C2: when the source is webp below 200,000 bytes and force = false, smartWebP
\* returns the original bytes with ssim 1.0, accepted, quality 100, tag 'skip'
\* and an empty diff, and no Encoder or Comparator call is made.
C2_SkipInvariant ==
    (SkipRuleFires /\ ~force /\ analysis.done) =>
        /\ calls = <<>>
        /\ pc \in {"select", "upload", "loop", "done"}
        /\ pc # "select" =>
              result = [buffer |-> OrigBuf, strategy |-> "skip", quality |-> 100,
                        ssim |-> 1000, accepted |-> TRUE, diffMap |-> EmptyBuf]

C2_Witness ==
    /\ SkipRuleFires /\ ~force
    /\ outcome.ok
    /\ result.strategy = "skip" /\ result.buffer = OrigBuf /\ result.diffMap = EmptyBuf

\* C3: when the source is webp below 200,000 bytes and force = true, the
\* conversion makes at least one Encoder call and does not return the
\* unchanged original tagged 'skip'.
C3_ForceRoutesIntoLoop ==
    (SkipRuleFires /\ force /\ HasResult) =>
        /\ EncCalls # {}
        /\ ~(result.strategy = "skip" /\ result.buffer = OrigBuf)

\* C4 as claimed: every image the classifier marks isFlat, whatever its format,
\* size and force value, gets the lossless strategy and ssim 1.0.
C4_LosslessForEveryFlatImage ==
    (analysis.done /\ analysis.isFlat /\ HasResult) =>
        result.strategy = "lossless" /\ result.ssim = 1000

\* C4: every image the classifier marks isFlat to which the Skip rule does not
\* apply (format other than webp, or size >= 200,000) gets, for every force
\* value, the lossless strategy and ssim 1.0.
C4_LosslessWhenNotSkipped ==
    (analysis.done /\ analysis.isFlat /\ ~SkipRuleFires /\ HasResult) =>
        /\ result.strategy = "lossless" /\ result.ssim = 1000
        /\ strategy.type = "lossless"

C4_Witness ==
    /\ analysis.isFlat /\ analysis.isDark
    /\ orig.format = "webp" /\ orig.size = 200000 /\ force
    /\ result.strategy = "lossless" /\ result.ssim = 1000
    /\ outcome.ok

\* C5: accepted = false exactly for the results tagged 'fallback'; results
\* tagged skip, lossless, adaptive or careful are accepted.
C5_AcceptedIffNotFallback ==
    HasResult =>
        /\ result.strategy \in {"skip", "lossless", "adaptive", "careful", "fallback"}
        /\ ~result.accepted => result.strategy = "fallback"
        /\ result.strategy = "fallback" => ~result.accepted
        /\ result.strategy \in {"skip", "lossless", "adaptive", "careful"} => result.accepted

C5_Witness ==
    /\ result.strategy = "fallback" /\ ~result.accepted
    /\ result.ssim = 950
    /\ outcome.ok

\* C6: when every candidate of an adaptive or careful list scored at most 0.96 in
\* the loop, the result is the re-encoding at Q[0] with the strategy's options:
\* quality Q[0], the comparator's score of that re-encoding, accepted = false,
\* tag 'fallback'; and Q[0] is the highest quality of every list selected.
C6_Fallback ==
    strategy.hasQualities =>
        LET Q == strategy.qualities
            n == Len(calls)
            exhausted == \A k \in 1..Len(Q) : \E i \in CmpCalls :
                            /\ i <= 2 * Len(Q)
                            /\ calls[i].ok
                            /\ calls[i].buf = Encode(Q[k], strategy.options)
                            /\ calls[i].score <= 960
        IN  /\ \A k \in 1..Len(Q) : Q[1] >= Q[k]
            /\ (exhausted /\ HasResult) =>
                  /\ result.strategy = "fallback"
                  /\ ~result.accepted
                  /\ result.quality = Q[1]
                  /\ result.buffer = Encode(Q[1], strategy.options)
                  /\ n = 2 * Len(Q) + 2
                  /\ calls[n - 1] = EncCall(result.buffer, TRUE)
                  /\ calls[n] = CmpCall(result.buffer, TRUE, result.ssim)

C6_Witness ==
    /\ strategy.type = "careful"
    /\ result.strategy = "fallback" /\ result.quality = 82 /\ ~result.accepted
    /\ Len(calls) = 8
    /\ outcome.ok

\* C7: the candidates are encoded in the selector's order, each one scored
\* against the original before the next is encoded; an accepted result is the
\* first candidate whose score exceeds 0.96: all earlier ones were tried and
\* scored at most 0.96, and nothing is encoded after it.
C7_SearchOrder ==
    (strategy.type \in {"adaptive", "careful"}) =>
        LET Q == strategy.qualities
            n == Len(calls)
            m == IF n <= 2 * Len(Q) THEN n ELSE 2 * Len(Q)
        IN  /\ \A i \in 1..m :
                  IF i % 2 = 1
                  THEN calls[i].op = "enc"
                       /\ calls[i].buf = Encode(Q[(i + 1) \div 2], strategy.options)
                  ELSE calls[i].op = "cmp"
                       /\ calls[i - 1].ok
                       /\ calls[i].buf = calls[i - 1].buf
            /\ \A i \in 1..m :
                  i < n => calls[i].ok /\ calls[i].score <= 960
            /\ (HasResult /\ result.accepted) =>
                  /\ n % 2 = 0 /\ n >= 2 /\ n <= 2 * Len(Q)
                  /\ calls[n] = CmpCall(result.buffer, TRUE, result.ssim)
                  /\ result.ssim > 960
                  /\ result.quality = Q[n \div 2]
                  /\ result.buffer = Encode(Q[n \div 2], strategy.options)

C7_Witness ==
    /\ strategy.type = "adaptive"
    /\ HasResult /\ result.accepted
    /\ result.quality = strategy.qualities[3]
    /\ Len(calls) = 6
    /\ calls[2].score = 950 /\ calls[4].score = 960
    /\ outcome.ok

\* C8: determineStrategy returns a strategy for every input, and it is the one
\* of the priority-ordered rules: webp below 200,000 -> skip; else flat ->
\* lossless, effort 6; else dark -> careful [82,80,78], nearLossless 60,
\* smartSubsample; else high detail -> adaptive [82,78,74,70]; else adaptive
\* [78,74,70,66].  A size of exactly 200,000 does not skip.
C8_DetermineStrategyReference ==
    (analysis.done /\ pc \notin {"analyze", "select"}) =>
        LET small == orig.format = "webp" /\ orig.size < 200000
            flat  == orig.entropy < 45
            dark  == orig.mean < 60
            high  == orig.entropy > 60
        IN  /\ strategy.type \in {"skip", "lossless", "careful", "adaptive"}
            /\ analysis.isFlat = flat /\ analysis.isDark = dark
            /\ analysis.isHighDetail = high
            /\ small => strategy.type = "skip"
            /\ (~small /\ flat) =>
                  /\ strategy.type = "lossless"
                  /\ strategy.options.lossless /\ strategy.options.effort = 6
            /\ (~small /\ ~flat /\ dark) =>
                  /\ strategy.type = "careful"
                  /\ strategy.qualities = <<82, 80, 78>>
                  /\ strategy.options.nearLossless = 60
                  /\ strategy.options.smartSubsample
            /\ (~small /\ ~flat /\ ~dark /\ high) =>
                  /\ strategy.type = "adaptive"
                  /\ strategy.qualities = <<82, 78, 74, 70>>
            /\ (~small /\ ~flat /\ ~dark /\ ~high) =>
                  /\ strategy.type = "adaptive"
                  /\ strategy.qualities = <<78, 74, 70, 66>>
            /\ orig.size = 200000 => strategy.type # "skip"

C8_Witness ==
    /\ orig.format = "webp" /\ orig.size = 200000
    /\ analysis.done /\ ~analysis.isFlat /\ analysis.isDark
    /\ strategy.type = "careful"
    /\ pc = "encode"

\* C9: a batch of N inputs of which K conversions fail returns N entries, entry
\* i carrying the id of input i, exactly the K failed ones marked success =
\* false with that conversion's error message, the other N-K success = true.
C9_BatchIntegrity ==
    (mode = "batch" /\ pc = "done") =>
        LET N == Len(images)
            K == Cardinality({i \in 1..Len(convLog) : ~convLog[i].ok})
        IN  /\ Len(results) = N
            /\ Len(convLog) = N
            /\ \A i \in 1..N :
                  /\ results[i].id = images[i].id
                  /\ results[i].success = convLog[i].ok
                  /\ ~convLog[i].ok =>
                        results[i].error = convLog[i].error /\ results[i].error # ""
            /\ Cardinality({i \in 1..N : ~results[i].success}) = K
            /\ Cardinality({i \in 1..N : results[i].success}) = N - K

C9_Witness ==
    /\ mode = "batch" /\ pc = "done"
    /\ Len(results) >= 2
    /\ ~results[1].success /\ results[1].error = "encode failed"
    /\ results[2].success
    /\ results[1].id # results[2].id

\* C10: the images of a batch are converted one at a time in input order: an
\* image is started only when every earlier one has ended, a failure moves on
\* to the next image, no step changes the entry of another image, and the batch
\* returns only after every image was started.
C10_SequentialIndependent ==
    [][ /\ (pc = "loop" /\ pc' = "fetch") =>
              /\ idx' = idx
              /\ Len(results) = idx - 1 /\ Len(convLog) = idx - 1
        /\ idx' # idx =>
              /\ idx' = idx + 1
              /\ outcome'.ended
              /\ Len(results') = idx /\ results'[idx].id = images[idx].id
        /\ Len(results') >= Len(results)
        /\ \A i \in 1..Len(results) : results'[i] = results[i]
        /\ (mode = "batch" /\ pc' = "done") => idx' = Len(images) + 1
      ]_vars

C10_Witness ==
    /\ mode = "batch" /\ pc = "fetch" /\ idx = 2
    /\ Len(results) = 1 /\ ~results[1].success
    /\ results[1].error = "compare failed"

----------------------------------------------------------------------------
\* C11: when an Encoder or Comparator call fails (lossless pass, loop, or
\* fallback re-encode) the conversion of that image ends in failure: no result
\* record, the failing call is the last call made (no retry, no further
\* candidate).
C11_ErrorPropagation ==
    \A i \in 1..Len(calls) :
        ~calls[i].ok =>
            /\ i = Len(calls)
            /\ outcome.ended /\ ~outcome.ok
            /\ outcome.error = (IF calls[i].op = "enc" THEN "encode failed"
                                ELSE "compare failed")
            /\ ~HasResult
            /\ pc \in {"loop", "done"}
            /\ mode = "batch" =>
                  /\ Len(results) >= 1
                  /\ ~results[Len(results)].success

C11_Witness ==
    /\ strategy.type = "careful"
    /\ Len(calls) = 7
    /\ calls[7].op = "enc" /\ ~calls[7].ok
    /\ outcome.ended /\ ~outcome.ok

\* C13: a non-success response to the fetch of the source bytes makes the
\* conversion fail with a fetch failure, and its body never reaches the
\* classifier, the selector, the encoder or the comparator.
C13_FetchFailureStopsPipeline ==
    ~orig.httpOk =>
        /\ ~analysis.done
        /\ ~Selected
        /\ calls = <<>>
        /\ outcome.ended =>
              outcome.error \in {"fetch failed", "Failed to fetch image from URL"}

\* C14: a /convert request that asks for 'quality-82' is answered with a
\* result encoded at quality 82 only, whatever the content profile.
C14_RetryAtRequestedQuality ==
    (mode = "convert" /\ reqStrategy = "quality-82" /\ outcome.ended /\ outcome.ok) =>
        /\ result.quality = 82
        /\ Cardinality(EncCalls) = 1
        /\ \A i \in EncCalls : calls[i].buf.q = 82

\* C15: a single-image conversion ends, after at most 2 * (4 + 1) Encoder and
\* Comparator calls, along Start -> StrategyBranch -> {SkipReturn |
\* LosslessReturn | SearchLoop} -> Terminal, with exactly one result record or
\* exactly one failure; a result, once produced, is never replaced.
C15_Steps ==
    {<<"prefetch", "fetch">>, <<"prefetch", "done">>,
     <<"fetch", "analyze">>, <<"fetch", "done">>,
     <<"analyze", "select">>, <<"analyze", "done">>,
     <<"select", "done">>, <<"select", "upload">>, <<"select", "diff">>,
     <<"select", "lossless">>, <<"select", "encode">>,
     <<"lossless", "diff">>, <<"lossless", "done">>,
     <<"encode", "compare">>, <<"encode", "done">>,
     <<"compare", "encode">>, <<"compare", "fbEncode">>, <<"compare", "diff">>,
     <<"compare", "done">>,
     <<"fbEncode", "fbCompare">>, <<"fbEncode", "done">>,
     <<"fbCompare", "diff">>, <<"fbCompare", "done">>,
     <<"diff", "upload">>, <<"diff", "done">>,
     <<"upload", "done">>}

C15_TerminatesWithOneOutcome ==
    /\ <>(pc = "done")
    /\ [](/\ Len(calls) <= 10
          /\ outcome.ended <=> pc = "done"
          /\ outcome.ok => HasResult
          /\ (outcome.ended /\ ~HasResult) => ~outcome.ok
          /\ (outcome.ended /\ outcome.error \in {"encode failed", "compare failed",
                  "unsupported image format", "fetch failed",
                  "Failed to fetch image from URL"}) => ~HasResult)
    /\ [][ /\ <<pc, pc'>> \in C15_Steps
           /\ HasResult =>
                 \/ result' = result
                 \/ pc = "diff" /\ result' = [result EXCEPT !.diffMap = result'.diffMap]
           /\ strategy'.type = "skip" => pc' \notin {"lossless", "encode", "compare"}
         ]_vars

C15_Witness ==
    /\ mode = "convert" /\ pc = "done"
    /\ outcome.ok
    /\ result.strategy = "fallback"
    /\ Len(calls) = 10

\* C16: under the lossless strategy the Encoder is called exactly once,
\* lossless with effort 6, the Comparator never, and the result has ssim 1.0,
\* accepted = true, quality 100 and tag 'lossless'.
C16_LosslessBranch ==
    strategy.type = "lossless" =>
        /\ CmpCalls = {}
        /\ Len(calls) <= 1
        /\ \A i \in 1..Len(calls) :
              /\ calls[i].op = "enc"
              /\ calls[i].buf.opts.lossless /\ calls[i].buf.opts.effort = 6
        /\ HasResult =>
              /\ Len(calls) = 1 /\ calls[1].ok
              /\ result.buffer = calls[1].buf
              /\ result.strategy = "lossless"
              /\ result.ssim = 1000 /\ result.accepted /\ result.quality = 100
        /\ (pc \in {"diff", "upload"} \/ outcome.ok) => HasResult

C16_Witness ==
    /\ mode = "batch"
    /\ strategy.type = "lossless"
    /\ outcome.ok
    /\ Len(calls) = 1 /\ calls[1].op = "enc"
    /\ result.quality = 100

\* C17: isFlat holds exactly when entropy < 4.5, isDark exactly when mean < 60,
\* isHighDetail exactly when entropy > 6; at entropy 4.5, entropy 6 and mean 60
\* the respective flag is false.
C17_ClassifierThresholds ==
    analysis.done =>
        /\ analysis.entropy = orig.entropy /\ analysis.mean = orig.mean
        /\ analysis.isFlat <=> orig.entropy < 45
        /\ analysis.isDark <=> orig.mean < 60
        /\ analysis.isHighDetail <=> orig.entropy > 60
        /\ orig.entropy = 45 => ~analysis.isFlat
        /\ orig.entropy = 60 => ~analysis.isHighDetail
        /\ orig.mean = 60 => ~analysis.isDark

C17_Witness ==
    /\ analysis.done
    /\ orig.entropy = 60 /\ orig.mean = 60
    /\ ~analysis.isFlat /\ ~analysis.isDark /\ ~analysis.isHighDetail

\* C18: the diff step neither changes nor withholds the Search Controller's
\* result: strategy tag, quality, ssim, accepted flag and encoded bytes go
\* through it unchanged, and the conversion does not fail in it.
C18_DiffHasNoEffect ==
    [][ pc = "diff" =>
            /\ result'.buffer = result.buffer
            /\ result'.strategy = result.strategy
            /\ result'.quality = result.quality
            /\ result'.ssim = result.ssim
            /\ result'.accepted = result.accepted
            /\ ~(outcome'.ended /\ ~outcome'.ok /\ outcome'.error = "diff failed")
      ]_vars

----------------------------------------------------------------------------
(* MigrationService: one job of type 'designers' and the cancel requests     *)
(* that arrive while it runs.  processJob runs from one await to the next    *)
(* without interruption; cancel is a separate request handled in between.   *)

MaxItems == 2

\* the images of one moodboard product
MaxImages == 2

ItemIds == {"d1", "d2"}

JobTypes == {"designers", "moodboard"}

\* payload.ids of execute, and the lists NotionService.getDesigners or
\* NotionService.getMoodboard may return
RequestedIds == SeqsUpTo(ItemIds, MaxItems)
SourceLists == SeqsUpTo(ItemIds, MaxItems)

\* no /convert or /batch-convert request is being served
ConvIdle ==
    /\ mode = "none" /\ images = <<>>
    /\ force = FALSE /\ storageKey = FALSE /\ reqStrategy = "auto"
    /\ idx = 1 /\ pc = "done"
    /\ orig = NoImage /\ analysis = NoAnalysis /\ strategy = NoStrategy
    /\ qi = 0 /\ webp = EmptyBuf /\ calls = <<>>
    /\ result = NoResult /\ outcome = NoOutcome
    /\ convLog = <<>> /\ results = <<>>

RECURSIVE SelectIds(_, _)
\* fullList.filter(d => job.items.includes(d.id))
SelectIds(full, items) ==
    IF full = <<>> THEN <<>>
    ELSE LET rest == SelectIds(Tail(full), items)
         IN  IF \E i \in 1..Len(items) : items[i] = Head(full)
             THEN <<Head(full)>> \o rest
             ELSE rest

\* migrateDesigners, migrateMoodboard: if (job.status === 'cancelled') break;
BreaksOnCancel_Never(status) == FALSE

BreaksOnCancel(status) == status = "cancelled"

\* cancel: if (job && job.status === 'processing')
CancelApplies_Always(known, status) == known

CancelApplies(known, status) == known /\ status = "processing"

\* processJob: the end of the try block and the finally block
FinishJob_NoEndTime(j, r) ==
    /\ job' = [j EXCEPT !.status = IF j.status # "cancelled" THEN "completed" ELSE j.status]
    /\ run' = [r EXCEPT !.pc = "finished"]

FinishJob(j, r) ==
    /\ job' = [j EXCEPT !.status = IF j.status # "cancelled" THEN "completed" ELSE j.status,
                        !.endTimeSet = TRUE]
    /\ run' = [r EXCEPT !.pc = "finished"]

\* the head of the for loop of migrateDesigners or migrateMoodboard for the
\* element number k of the list, up to the first await of that element
LoopTop(j, r, k) ==
    IF k > Len(r.list) \/ BreaksOnCancel(j.status)
    THEN FinishJob(j, r)
    ELSE \E hasCover \in BOOLEAN, n \in 0..MaxImages :
            /\ j.type = "designers" => n = 0
            /\ j.type = "moodboard" => hasCover
            /\ job' = [j EXCEPT !.current = r.list[k]]
            /\ run' = [r EXCEPT !.k = k,
                                !.pc = IF j.type = "moodboard" THEN "enrich"
                                       ELSE IF hasCover THEN "convert" ELSE "insert",
                                !.imgs = n, !.img = 0,
                                !.started = Append(r.started, r.list[k])]

\* the catch block of one element
ItemFailed_Uncounted(msg) ==
    LoopTop([job EXCEPT !.errors = Append(job.errors,
                                          [item |-> TRUE, id |-> run.list[run.k],
                                           error |-> msg])],
            run, run.k + 1)

ItemFailed(msg) ==
    LoopTop([job EXCEPT !.failed = job.failed + 1,
                        !.errors = Append(job.errors,
                                          [item |-> TRUE, id |-> run.list[run.k],
                                           error |-> msg])],
            run, run.k + 1)

\* the end of the try block of one element
ItemDone ==
    LoopTop([job EXCEPT !.completed = job.completed + 1,
                        !.results = Append(job.results,
                                           [id |-> run.list[run.k], status |-> "success"])],
            run, run.k + 1)

\* migrateMoodboard: the head of the for loop over product.images
ImageLoop(i) ==
    IF i > run.imgs
    THEN ItemDone
    ELSE /\ run' = [run EXCEPT !.img = i, !.pc = "mbConvert"]
         /\ UNCHANGED job

\* processJob: the catch block, after the fetch of the source list threw
ListFailed ==
    /\ job' = [job EXCEPT !.status = "failed",
                          !.errors = Append(job.errors,
                                            [item |-> FALSE, id |-> "",
                                             error |-> "notion failed"]),
                          !.endTimeSet = TRUE]
    /\ run' = [run EXCEPT !.pc = "finished"]

\* one awaited call of an element: it returns and the run goes on at pc next,
\* or it throws into the catch block of the element
Awaited(at, next, msg) ==
    /\ run.pc = at
    /\ \/ /\ run' = [run EXCEPT !.pc = next]
          /\ UNCHANGED job
       \/ ItemFailed(msg)

JobInit ==
    /\ ConvIdle
    /\ conc = <<>>
    /\ job = NoJob
    /\ run = NoRun
    /\ anl = NoAnl
    /\ proc = NoProc
    /\ modal = NoModal

\* MigrationService.execute, and processJob up to its first await
Execute ==
    /\ job.status = "none"
    /\ run.pc = "idle"
    /\ \E ids \in RequestedIds, t \in JobTypes :
          job' = [type |-> t, status |-> "processing", items |-> ids, total |-> Len(ids),
                  completed |-> 0, failed |-> 0, current |-> "",
                  results |-> <<>>, errors |-> <<>>, endTimeSet |-> FALSE]
    /\ run' = [NoRun EXCEPT !.pc = "list"]
    /\ UNCHANGED <<convVars, conc, uiVars>>

\* migrateDesigners: NotionService.getDesigners() settles
GetDesigners ==
    /\ run.pc = "list"
    /\ job.type = "designers"
    /\ \/ \E full \in SourceLists :
             LoopTop(job, [run EXCEPT !.list = SelectIds(full, job.items)], 1)
       \/ ListFailed
    /\ UNCHANGED <<convVars, conc, uiVars>>

\* migrateDesigners: ImageService.convert(designer.coverUrl) settles
ConvertCover ==
    /\ Awaited("convert", "upload", "convert failed")
    /\ UNCHANGED <<convVars, conc, uiVars>>

\* migrateDesigners: StorageService.upload(coverKey, conversion.buffer, ...) settles
UploadCover ==
    /\ Awaited("upload", "insert", "upload failed")
    /\ UNCHANGED <<convVars, conc, uiVars>>

\* migrateDesigners: turso.execute(...) settles
InsertRow ==
    /\ run.pc = "insert"
    /\ \/ ItemDone
       \/ ItemFailed("insert failed")
    /\ UNCHANGED <<convVars, conc, uiVars>>

\* migrateMoodboard: NotionService.getMoodboard() settles
GetMoodboard ==
    /\ run.pc = "list"
    /\ job.type = "moodboard"
    /\ \/ \E full \in SourceLists :
             LoopTop(job, [run EXCEPT !.list = SelectIds(full, job.items)], 1)
       \/ ListFailed
    /\ UNCHANGED <<convVars, conc, uiVars>>

\* migrateMoodboard: EnrichmentService.generate(product) settles
Enrich ==
    /\ Awaited("enrich", "mbInsert", "enrichment failed")
    /\ UNCHANGED <<convVars, conc, uiVars>>

\* migrateMoodboard: the insert of the product settles
InsertProduct ==
    /\ run.pc = "mbInsert"
    /\ \/ ImageLoop(1)
       \/ ItemFailed("insert failed")
    /\ UNCHANGED <<convVars, conc, uiVars>>

\* migrateMoodboard: ImageService.convert(img.url) settles
ConvertImage ==
    /\ Awaited("mbConvert", "mbUpload", "convert failed")
    /\ UNCHANGED <<convVars, conc, uiVars>>

\* migrateMoodboard: StorageService.upload(r2Key, conversion.buffer, ...) settles
UploadImage ==
    /\ Awaited("mbUpload", "embed", "upload failed")
    /\ UNCHANGED <<convVars, conc, uiVars>>

\* migrateMoodboard: VectorizeService.generateEmbedding and VectorizeService.upsert
\* settle; what they throw is caught and logged only
Vectorize ==
    /\ run.pc \in {"embed", "upsert"}
    /\ \/ run' = [run EXCEPT !.pc = IF run.pc = "embed" THEN "upsert" ELSE "mbImage"]
       \/ run' = [run EXCEPT !.pc = "mbImage"]
    /\ UNCHANGED <<job, convVars, conc, uiVars>>

\* migrateMoodboard: the insert of the image entry settles
InsertImage ==
    /\ run.pc = "mbImage"
    /\ \/ ImageLoop(run.img + 1)
       \/ ItemFailed("insert failed")
    /\ UNCHANGED <<convVars, conc, uiVars>>

\* MigrationService.cancel(jobId), for the id of the job or for an unknown id
Cancel ==
    /\ \E known \in BOOLEAN :
          /\ known => job.status # "none"
          /\ IF CancelApplies(known, job.status)
             THEN /\ job' = [job EXCEPT !.status = "cancelled", !.endTimeSet = TRUE]
                  /\ run' = [run EXCEPT !.startedAtCancel =
                                           IF run.startedAtCancel < 0 THEN Len(run.started)
                                           ELSE run.startedAtCancel,
                                   !.lastCancel = "applied"]
             ELSE /\ run' = [run EXCEPT !.lastCancel = "ignored"]
                  /\ UNCHANGED job
    /\ UNCHANGED <<convVars, conc, uiVars>>

\* the steps of processJob
ProcessStep ==
    \/ GetDesigners
    \/ ConvertCover
    \/ UploadCover
    \/ InsertRow
    \/ GetMoodboard
    \/ Enrich
    \/ InsertProduct
    \/ ConvertImage
    \/ UploadImage
    \/ Vectorize
    \/ InsertImage

JobNext ==
    \/ Execute
    \/ ProcessStep
    \/ Cancel

JobSpec == JobInit /\ [][JobNext]_vars

\* every awaited collaborator call eventually returns or throws
JobFairSpec == JobSpec /\ WF_vars(ProcessStep)

\* processJob is between two awaits of one element
InFlight == run.pc \notin {"idle", "list", "finished"}

\* C20: after cancel took effect on a processing job, the element in flight is
\* carried to its end (the cancel changes neither the position nor the list of
\* the run, and the element ends up counted as completed or failed) and no
\* further element is started.
C20_CancelBetweenItems ==
    /\ [](run.startedAtCancel >= 0 =>
            /\ job.status \in {"cancelled", "failed"}
            /\ Len(run.started) = run.startedAtCancel
            /\ InFlight =>
                  /\ run.k = Len(run.started)
                  /\ run.started[run.k] = run.list[run.k]
            /\ run.pc = "finished" =>
                  job.completed + job.failed = Len(run.started))
    /\ [][ (job.status = "processing" /\ job'.status = "cancelled") =>
              /\ run'.pc = run.pc /\ run'.k = run.k /\ run'.list = run.list
              /\ job'.completed = job.completed /\ job'.failed = job.failed
         ]_vars

C20_Witness ==
    /\ job.status = "cancelled"
    /\ run.pc = "finished"
    /\ run.startedAtCancel = 1
    /\ Len(run.list) = 2
    /\ job.completed = 1 /\ job.failed = 0
    /\ Len(job.results) = 1

----------------------------------------------------------------------------
(* Concurrent calls of smartWebP.  The server answers requests concurrently: *)
(* the calls interleave at their awaits.  Every const and let of smartWebP   *)
(* and convertWithStrategy is a local of the call, so each call has a record *)
(* of its own; the url of call number p is p.                                *)

NumCalls == 2

ConcCalls == 1..NumCalls

\* the scores the comparator may return here: one the test rejects, one it accepts
ConcScores == {960, 970}

\* the bodies the urls may answer with: an optimised webp, a flat and an
\* ordinary jpeg, and bytes that are no image
ConcBodies ==
    {b \in ImageBodies :
        \/ b.format = "webp" /\ b.size = 199999 /\ b.entropy = 45 /\ b.mean = 60
        \/ b.format = "jpeg" /\ b.size = 200000 /\ b.entropy = 44 /\ b.mean = 60
        \/ b.format = "jpeg" /\ b.size = 200000 /\ b.entropy = 45 /\ b.mean = 60
        \/ ~b.decodable /\ b.size = 200000}

\* a buffer together with the url whose bytes it was made from
Tagged(u, buf) == [src |-> u, buf |-> buf]

\* the locals of a call that has not yet passed its first await
NewCall(f) ==
    [force |-> f, pc |-> "fetch", orig |-> [url |-> 0, body |-> NoImage],
     analysis |-> NoAnalysis, strategy |-> NoStrategy, qi |-> 0,
     webp |-> Tagged(0, EmptyBuf), calls |-> <<>>,
     result |-> [NoResult EXCEPT !.buffer = Tagged(0, EmptyBuf)],
     outcome |-> NoOutcome]

\* the score the comparator returned earlier in this log for this very buffer
MeasuredIn(log, buf) ==
    LET seen == {i \in 1..Len(log) : log[i].op = "cmp" /\ log[i].ok /\ log[i].buf = buf}
    IN  IF seen = {} THEN 0 ELSE log[CHOOSE i \in seen : TRUE].score

\* const webp of convertWithStrategy, as call p reads it
CandidateOf_Shared(c, p) == c[1].webp

CandidateOf(c, p) == c[p].webp

\* smartWebP of this call throws
Failed(l, msg) ==
    [l EXCEPT !.pc = "done", !.outcome = [ended |-> TRUE, ok |-> FALSE, error |-> msg]]

\* smartWebP of this call returns res
Returned(l, res) ==
    [l EXCEPT !.pc = "done", !.result = res,
              !.outcome = [ended |-> TRUE, ok |-> TRUE, error |-> ""]]

\* one call moves to its next await; nothing else changes
Local(p, n) ==
    /\ conc' = [conc EXCEPT ![p] = n]
    /\ UNCHANGED <<convVars, job, run, uiVars>>

ConcInit ==
    /\ ConvIdle
    /\ job = NoJob
    /\ run = NoRun
    /\ anl = NoAnl
    /\ proc = NoProc
    /\ modal = NoModal
    /\ conc \in [ConcCalls -> {NewCall(f) : f \in BOOLEAN}]

\* smartWebP: fetch(imageUrl), response.arrayBuffer()
ConcFetch ==
    \E p \in ConcCalls :
        /\ conc[p].pc = "fetch"
        /\ \/ \E b \in ConcBodies :
                 Local(p, [conc[p] EXCEPT !.orig = [url |-> p, body |-> b],
                                          !.pc = "analyze"])
           \/ Local(p, Failed(conc[p], "fetch failed"))

\* smartWebP: analyzeImage(originalBuffer)
ConcAnalyze ==
    \E p \in ConcCalls :
        LET l == conc[p]
        IN  /\ l.pc = "analyze"
            /\ IF l.orig.body.decodable
               THEN Local(p, [l EXCEPT !.analysis = analyzeImage(l.orig.body.entropy,
                                                                 l.orig.body.mean),
                                       !.pc = "select"])
               ELSE Local(p, Failed(l, "unsupported image format"))

\* smartWebP: metadata, determineStrategy, the skip short-circuit, and
\* convertWithStrategy up to its first await
ConcSelect ==
    \E p \in ConcCalls :
        LET l  == conc[p]
            st == determineStrategy(l.analysis, l.orig.body.format, l.orig.body.size)
            m  == [l EXCEPT !.strategy = st]
            ob == Tagged(l.orig.url, OrigBuf)
        IN  /\ l.pc = "select"
            /\ IF SkipShortCircuit(st, l.force)
               THEN Local(p, Returned(m, [SkipReturn EXCEPT !.buffer = ob]))
               ELSE IF st.type = "skip"
               THEN Local(p, [m EXCEPT !.result = SkipResult(ob), !.pc = "diff"])
               ELSE IF st.type = "lossless"
               THEN Local(p, [m EXCEPT !.pc = "lossless"])
               ELSE IF st.hasQualities
               THEN Local(p, [m EXCEPT !.qi = 1, !.pc = "encode"])
               ELSE Local(p, Failed(m, "Invalid strategy"))

\* convertWithStrategy: image.webp(strategy.options).toBuffer() of the lossless branch
ConcEncodeLossless ==
    \E p \in ConcCalls :
        LET l   == conc[p]
            buf == Tagged(l.orig.url, Encode(0, l.strategy.options))
        IN  /\ l.pc = "lossless"
            /\ \/ Local(p, [l EXCEPT !.calls = Append(l.calls, EncCall(buf, TRUE)),
                                     !.result = LosslessResult(buf),
                                     !.pc = "diff"])
               \/ Local(p, Failed([l EXCEPT !.calls = Append(l.calls, EncCall(buf, FALSE))],
                                  "encode failed"))

\* convertWithStrategy: image.webp({quality, ...strategy.options}).toBuffer(),
\* in the loop and in the fallback
ConcEncode ==
    \E p \in ConcCalls :
        LET l   == conc[p]
            q   == IF l.pc = "encode" THEN CandidateAt(l.strategy, l.qi)
                                      ELSE FallbackQuality(l.strategy)
            buf == Tagged(l.orig.url, Encode(q, l.strategy.options))
        IN  /\ l.pc \in {"encode", "fbEncode"}
            /\ \/ Local(p, [l EXCEPT !.calls = Append(l.calls, EncCall(buf, TRUE)),
                                     !.webp = buf,
                                     !.pc = IF l.pc = "encode" THEN "compare"
                                                               ELSE "fbCompare"])
               \/ Local(p, Failed([l EXCEPT !.calls = Append(l.calls, EncCall(buf, FALSE))],
                                  "encode failed"))

\* convertWithStrategy: compareSSIM(originalBuffer, webp) in the loop, the test
\* and the loop's step
ConcCompare ==
    \E p \in ConcCalls :
        LET l   == conc[p]
            buf == CandidateOf(conc, p)
        IN  /\ l.pc = "compare"
            /\ \/ \E s \in ConcScores :
                    /\ MeasuredIn(l.calls, buf) # 0 => s = MeasuredIn(l.calls, buf)
                    /\ LET m == [l EXCEPT !.calls = Append(l.calls, CmpCall(buf, TRUE, s))]
                       IN  IF AcceptsScore(s)
                           THEN Local(p, [m EXCEPT
                                    !.result = AcceptedResult(buf, l.strategy.type,
                                                   CandidateAt(l.strategy, l.qi), s),
                                    !.pc = "diff"])
                           ELSE IF l.qi < Len(l.strategy.qualities)
                           THEN Local(p, [m EXCEPT !.qi = NextCandidate(l.qi),
                                                   !.pc = "encode"])
                           ELSE Local(p, [m EXCEPT !.pc = "fbEncode"])
               \/ Local(p, Failed([l EXCEPT !.calls = Append(l.calls, CmpCall(buf, FALSE, 0))],
                                  "compare failed"))

\* convertWithStrategy: the fallback's compareSSIM(originalBuffer, webp) and return
ConcCompareFallback ==
    \E p \in ConcCalls :
        LET l   == conc[p]
            buf == CandidateOf(conc, p)
        IN  /\ l.pc = "fbCompare"
            /\ \/ \E s \in ConcScores :
                    /\ MeasuredIn(l.calls, buf) # 0 => s = MeasuredIn(l.calls, buf)
                    /\ Local(p, [l EXCEPT
                                   !.calls = Append(l.calls, CmpCall(buf, TRUE, s)),
                                   !.result = FallbackResult(buf, FallbackQuality(l.strategy), s),
                                   !.pc = "diff"])
               \/ Local(p, Failed([l EXCEPT !.calls = Append(l.calls, CmpCall(buf, FALSE, 0))],
                                  "compare failed"))

\* smartWebP: generateDiffMap(originalBuffer, result.buffer) and return
ConcGenerateDiff ==
    \E p \in ConcCalls :
        LET l == conc[p]
        IN  /\ l.pc = "diff"
            /\ \/ Local(p, Returned(l, [l.result EXCEPT
                              !.diffMap = Tagged(l.result.buffer.src,
                                                 DiffOf(l.result.buffer.buf))]))
               \/ Local(p, Failed(l, "diff failed"))

ConcNext ==
    \/ ConcFetch
    \/ ConcAnalyze
    \/ ConcSelect
    \/ ConcEncodeLossless
    \/ ConcEncode
    \/ ConcCompare
    \/ ConcCompareFallback
    \/ ConcGenerateDiff

ConcSpec == ConcInit /\ [][ConcNext]_vars

\* C19: concurrent conversions of different images do not affect one another.
\* Whatever call p holds was made from the bytes of p's own url: its original,
\* its analysis and strategy, the buffers it handed to Encoder and Comparator,
\* its candidate and its result; and a step of one call changes the locals of
\* no other call.
C19_Isolation ==
    /\ [](\A p \in ConcCalls :
            LET l == conc[p]
            IN  /\ l.pc # "fetch" /\ l.orig.url # 0 => l.orig.url = p
                /\ l.analysis.done =>
                      l.analysis = analyzeImage(l.orig.body.entropy, l.orig.body.mean)
                /\ l.strategy.type # "none" =>
                      l.strategy = determineStrategy(l.analysis, l.orig.body.format,
                                                     l.orig.body.size)
                /\ \A i \in 1..Len(l.calls) : l.calls[i].buf.src = p
                /\ l.pc \in {"compare", "fbCompare"} => l.webp.src = p
                /\ l.result.strategy # "none" =>
                      /\ l.result.buffer.src = p
                      /\ l.result.strategy # "skip" =>
                            \E i \in 1..Len(l.calls) :
                                /\ l.calls[i].ok
                                /\ l.calls[i].buf = l.result.buffer
                                /\ l.result.strategy # "lossless" =>
                                      /\ l.calls[i].op = "cmp"
                                      /\ l.calls[i].score = l.result.ssim)
    /\ [][\A p, q \in ConcCalls :
             (p # q /\ conc'[p] # conc[p]) => conc'[q] = conc[q]]_vars

\* two calls in flight at once, the second one well into its search when the
\* first one, which started no later, ends with a fallback result of its own
C19_Witness ==
    /\ conc[1].pc = "done" /\ conc[1].outcome.ok
    /\ conc[1].result.strategy = "fallback"
    /\ conc[2].pc = "compare" /\ conc[2].qi = 2
    /\ conc[2].webp # conc[1].webp

----------------------------------------------------------------------------
\* the comparator's scores seen so far do not decrease with the quality of the
\* buffer compared
ScoresMonotone ==
    \A i, j \in CmpCalls :
        (calls[i].ok /\ calls[j].ok /\ calls[i].buf.q <= calls[j].buf.q) =>
            calls[i].score <= calls[j].score

\* the position of quality q in the list Q, 0 when it is not in it
PositionIn(Q, q) ==
    IF \E k \in 1..Len(Q) : Q[k] = q
    THEN CHOOSE k \in 1..Len(Q) : Q[k] = q
    ELSE 0

\* C21: when the comparator's score does not decrease with the encode quality,
\* an accepted adaptive or careful result has quality Q[0] and was found by the
\* first Encoder and Comparator call; once a second candidate has been tried,
\* no candidate is accepted any more.
C21_MonotoneAcceptsFirstOnly ==
    (strategy.type \in {"adaptive", "careful"} /\ ScoresMonotone /\ HasResult) =>
        /\ result.accepted =>
              /\ result.quality = strategy.qualities[1]
              /\ Len(calls) = 2
        /\ Len(calls) > 2 => ~result.accepted /\ result.strategy = "fallback"

C21_Witness ==
    /\ strategy.type = "careful"
    /\ ScoresMonotone
    /\ Len(calls) = 8
    /\ calls[2].score = 960 /\ calls[4].score = 960 /\ calls[6].score = 950
    /\ HasResult /\ ~result.accepted

\* C22: with a candidate list of length n, a conversion that accepts the
\* candidate at position i has made exactly i Encoder and i Comparator calls, a
\* conversion that ends in the fallback exactly n+1 of each, and no conversion
\* ever makes more than n+1 of either.
C22_CallCounts ==
    strategy.hasQualities =>
        LET Q == strategy.qualities
            n == Len(Q)
        IN  /\ Cardinality(EncCalls) <= n + 1
            /\ Cardinality(CmpCalls) <= n + 1
            /\ (HasResult /\ result.accepted) =>
                  /\ PositionIn(Q, result.quality) >= 1
                  /\ Cardinality(EncCalls) = PositionIn(Q, result.quality)
                  /\ Cardinality(CmpCalls) = PositionIn(Q, result.quality)
            /\ (HasResult /\ result.strategy = "fallback") =>
                  /\ Cardinality(EncCalls) = n + 1
                  /\ Cardinality(CmpCalls) = n + 1

C22_Witness ==
    /\ strategy.type = "adaptive"
    /\ HasResult /\ result.accepted
    /\ result.quality = strategy.qualities[2]
    /\ Cardinality(EncCalls) = 2 /\ Cardinality(CmpCalls) = 2
    /\ outcome.ok

\* C23: the fallback result is the first candidate of the loop once more: its
\* buffer is the buffer encoded for Q[0] in the loop and its ssim is the score
\* measured for Q[0] in the loop; so every result with accepted = false has an
\* ssim of at most 0.96.
C23_FallbackIsFirstCandidate ==
    HasResult =>
        /\ result.strategy = "fallback" =>
              /\ calls[1] = EncCall(result.buffer, TRUE)
              /\ calls[2] = CmpCall(result.buffer, TRUE, result.ssim)
              /\ result.quality = strategy.qualities[1]
        /\ ~result.accepted => result.ssim <= 960

C23_Witness ==
    /\ strategy.type = "adaptive"
    /\ result.strategy = "fallback"
    /\ Len(calls) = 10
    /\ calls[2].score = 950 /\ calls[10].score = 950 /\ result.ssim = 950
    /\ calls[1].buf = calls[9].buf

----------------------------------------------------------------------------
\* the statuses a job ends in
Terminal == {"completed", "failed", "cancelled"}

\* C24: the status of a job only moves from queued/processing to one of
\* completed, failed, cancelled, and a cancelled job stays cancelled.
C24_StatusMonotone ==
    [][ /\ job.status = "cancelled" => job'.status = "cancelled"
        /\ job.status \in Terminal => job'.status = job.status
        /\ job.status = "processing" => job'.status \in {"processing"} \cup Terminal
      ]_vars

\* the ids in the entries of a sequence of records are pairwise different
DistinctIds(es) == \A i, j \in 1..Len(es) : i # j => es[i].id # es[j].id

\* the per-item entries of job.errors
ItemErrors == {i \in 1..Len(job.errors) : job.errors[i].item}

\* C25: while the list to migrate has distinct ids, completed + failed <= total,
\* completed is the number of results, failed the number of per-item errors,
\* and no id is counted twice, neither as completed and failed nor twice as
\* either.
C25_ProgressAccounting ==
    (\A i, j \in 1..Len(run.list) : i # j => run.list[i] # run.list[j]) =>
        /\ job.completed + job.failed <= job.total
        /\ job.completed = Len(job.results)
        /\ job.failed = Cardinality(ItemErrors)
        /\ DistinctIds(job.results)
        /\ \A i, j \in ItemErrors : i # j => job.errors[i].id # job.errors[j].id
        /\ \A i \in 1..Len(job.results), j \in ItemErrors :
              job.results[i].id # job.errors[j].id

C25_Witness ==
    /\ job.type = "moodboard"
    /\ run.pc = "finished"
    /\ Len(run.list) = 2 /\ run.list[1] # run.list[2]
    /\ job.completed = 1 /\ job.failed = 1
    /\ job.total = 2

\* C28: every job that was started reaches the end of processJob in a terminal
\* status with endTime set; a job is 'failed' exactly when the fetch of the
\* source list threw, so the failure of single items leaves it 'completed' or
\* 'cancelled'.
C28_JobEnds ==
    /\ (job.status = "processing") ~>
          (run.pc = "finished" /\ job.status \in Terminal /\ job.endTimeSet)
    /\ [](run.pc = "finished" => job.status \in Terminal /\ job.endTimeSet)
    /\ [](job.status \in Terminal => job.endTimeSet)
    /\ [](job.status = "failed" <=>
             \E i \in 1..Len(job.errors) : ~job.errors[i].item)
    /\ [](job.failed = Cardinality(ItemErrors))

C28_Witness ==
    /\ job.type = "designers"
    /\ run.pc = "finished"
    /\ job.status = "completed" /\ job.endTimeSet
    /\ job.failed = 2 /\ job.completed = 0

\* C29: a cancel request for an unknown job id, or for a job that is not
\* 'processing', changes nothing of any job.
C29_CancelFrame ==
    [][ (job.status # "processing"
         /\ run'.pc = run.pc /\ run'.k = run.k /\ run'.img = run.img) =>
            /\ job' = job
            /\ run'.lastCancel \in {run.lastCancel, "ignored"}
            /\ run'.startedAtCancel = run.startedAtCancel
      ]_vars

C29_Witness ==
    /\ job.status = "completed"
    /\ run.lastCancel = "ignored"
    /\ run.startedAtCancel < 0
    /\ job.completed = 1

----------------------------------------------------------------------------
(* ImageService.analyze: one call *)

\* analyze: the if-chain that sets recommendation
Recommendation_DarkFirst(an, format, size) ==
    IF format = "webp" /\ size < SkipSizeLimit THEN "skip"
    ELSE IF an.isDark THEN "careful"
    ELSE IF an.isFlat THEN "lossless"
    ELSE "adaptive"

Recommendation(an, format, size) ==
    IF format = "webp" /\ size < SkipSizeLimit THEN "skip"
    ELSE IF an.isFlat THEN "lossless"
    ELSE IF an.isDark THEN "careful"
    ELSE "adaptive"

\* analyze: classification
Classification(an) ==
    IF an.isFlat THEN "flat" ELSE IF an.isDark THEN "dark" ELSE "high-detail"

\* analyze throws
AnalyzeThrows(msg) ==
    anl' = [anl EXCEPT !.pc = "done",
                       !.outcome = [ended |-> TRUE, ok |-> FALSE, error |-> msg]]

\* everything but the call of analyze
analyzeFrame == <<convVars, conc, job, run, proc, modal>>

AnalyzeInit ==
    /\ ConvIdle
    /\ conc = <<>>
    /\ job = NoJob
    /\ run = NoRun
    /\ anl = [NoAnl EXCEPT !.pc = "fetch"]
    /\ proc = NoProc
    /\ modal = NoModal

\* analyze: fetch(imageUrl), response.arrayBuffer()
AnalyzeFetch ==
    /\ anl.pc = "fetch"
    /\ \/ \E b \in ImageBodies \cup ErrorBodies :
             anl' = [anl EXCEPT !.body = b, !.pc = "analyze"]
       \/ AnalyzeThrows("fetch failed")
    /\ UNCHANGED analyzeFrame

\* analyze: analyzeImage(buffer)
AnalyzeClassify ==
    /\ anl.pc = "analyze"
    /\ IF anl.body.decodable
       THEN anl' = [anl EXCEPT !.analysis = analyzeImage(anl.body.entropy, anl.body.mean),
                               !.pc = "metadata"]
       ELSE AnalyzeThrows("unsupported image format")
    /\ UNCHANGED analyzeFrame

\* analyze: sharp(buffer).metadata(), the recommendation and the return
AnalyzeRecommend ==
    /\ anl.pc = "metadata"
    /\ \/ anl' = [anl EXCEPT
                    !.format = anl.body.format,
                    !.recommendation = Recommendation(anl.analysis, anl.body.format,
                                                      anl.body.size),
                    !.classification = Classification(anl.analysis),
                    !.outcome = [ended |-> TRUE, ok |-> TRUE, error |-> ""],
                    !.pc = "done"]
       \/ AnalyzeThrows("metadata failed")
    /\ UNCHANGED analyzeFrame

AnalyzeNext ==
    \/ AnalyzeFetch
    \/ AnalyzeClassify
    \/ AnalyzeRecommend

AnalyzeSpec == AnalyzeInit /\ [][AnalyzeNext]_vars

\* C27: what analyze recommends is the type of the strategy determineStrategy
\* returns for the same profile, format and size: for the image analyze was
\* called for, and for every combination of the three flags, format and size.
C27_RecommendationAgrees ==
    /\ anl.outcome.ok =>
          /\ anl.recommendation \in {"skip", "lossless", "careful", "adaptive"}
          /\ anl.recommendation =
                determineStrategy(analyzeImage(anl.body.entropy, anl.body.mean),
                                  anl.body.format, anl.body.size).type
    /\ \A flat, dark, detail \in BOOLEAN, f \in Formats, sz \in Sizes :
          LET an == [NoAnalysis EXCEPT !.isFlat = flat, !.isDark = dark,
                                       !.isHighDetail = detail, !.done = TRUE]
          IN  Recommendation(an, f, sz) = determineStrategy(an, f, sz).type

\* analyze answered for a dark, flat jpeg: both say lossless
C27_Witness ==
    /\ anl.outcome.ok
    /\ anl.analysis.isFlat /\ anl.analysis.isDark
    /\ anl.body.format = "jpeg"
    /\ anl.recommendation = "lossless"

----------------------------------------------------------------------------
(* ProcessingModal, as DesignerGrid renders it.  The repository holds two    *)
(* versions of the component: "A" is ProcessingModal.tsx, "B" is part_009.   *)
(* DesignerGrid passes items={Array.from(selectedIds)}: a new array on every *)
(* render of the parent, so the effect on [isOpen, items] runs again after   *)
(* each of them.  executes counts the calls of migrationApi.execute since    *)
(* the dialog was opened; a request in flight is named by that count.        *)

MaxRenders == 3

\* the condition under which the effect on [isOpen, items] calls startJob
StartsJob(p) ==
    IF p.variant = "A"
    THEN p.isOpen /\ p.hasItems /\ p.jobId = 0
    ELSE p.isOpen /\ p.hasItems

\* startJob up to its await: setError(null), migrationApi.execute(...)
StartJob(p) ==
    [p EXCEPT !.error = FALSE,
              !.executes = p.executes + 1,
              !.pending = p.pending \cup {p.executes + 1}]

\* the effect on [isOpen, items] (and startJob in version B)
OpenEffect(p) ==
    IF StartsJob(p) THEN StartJob(p)
    ELSE IF p.variant = "B" THEN [p EXCEPT !.jobId = 0, !.error = FALSE]
    ELSE p

\* everything but the ProcessingModal
procFrame == <<convVars, conc, job, run, anl, modal>>

ProcInit ==
    /\ ConvIdle
    /\ conc = <<>>
    /\ job = NoJob
    /\ run = NoRun
    /\ anl = NoAnl
    /\ modal = NoModal
    /\ proc \in {[NoProc EXCEPT !.variant = v, !.hasItems = h] :
                    v \in {"A", "B"}, h \in BOOLEAN}

\* DesignerGrid: setIsProcessing(true), the render and the effects after it
OpenModal ==
    /\ ~proc.isOpen
    /\ proc.renders < MaxRenders
    /\ proc' = OpenEffect([proc EXCEPT !.isOpen = TRUE, !.executes = 0,
                                       !.renders = proc.renders + 1])
    /\ UNCHANGED procFrame

\* DesignerGrid renders again while the dialog is open (its store or state
\* changed): the same ids in a new array
ParentRerender ==
    /\ proc.isOpen
    /\ proc.renders < MaxRenders
    /\ proc' = OpenEffect([proc EXCEPT !.renders = proc.renders + 1])
    /\ UNCHANGED procFrame

\* startJob after its await: the response to one execute request
ExecuteResponds ==
    /\ \E e \in proc.pending :
          \/ proc' = [proc EXCEPT !.jobId = e, !.pending = proc.pending \ {e}]
          \/ proc' = [proc EXCEPT !.error = TRUE, !.pending = proc.pending \ {e}]
    /\ UNCHANGED procFrame

\* handleCancel / onClose: setIsProcessing(false), the render and the effects
CloseModal ==
    /\ proc.isOpen
    /\ proc' = OpenEffect([proc EXCEPT !.isOpen = FALSE])
    /\ UNCHANGED procFrame

ProcNext ==
    \/ OpenModal
    \/ ParentRerender
    \/ ExecuteResponds
    \/ CloseModal

ProcSpec == ProcInit /\ [][ProcNext]_vars

\* C26: for one opening of the dialog migrationApi.execute is called at most
\* once, however often the parent renders again and however late the response
\* arrives.
C26_ExecuteOncePerOpening ==
    proc.executes <= 1

----------------------------------------------------------------------------
(* WebPComparisonModal, as DesignerGrid renders it: always mounted, isOpen   *)
(* and imageUrl follow comparisonUrl.  analyze and convert are closures of   *)
(* the render that started them, so a request is made for the imageUrl of    *)
(* that render; opens numbers the openings of the dialog.                    *)

MaxOpens == 2

MaxRetries == 1

ModalUrls == {"a", "b"}

\* everything but the WebPComparisonModal
modalFrame == <<convVars, conc, job, run, anl, proc>>

\* a request of the dialog that has not been answered yet
Request(kind, url, opening, seq) ==
    [kind |-> kind, url |-> url, opening |-> opening, seq |-> seq]

ModalInit ==
    /\ ConvIdle
    /\ conc = <<>>
    /\ job = NoJob
    /\ run = NoRun
    /\ anl = NoAnl
    /\ proc = NoProc
    /\ modal = NoModal

\* DesignerGrid: setComparisonUrl(url); the effect on [isOpen, imageUrl] calls
\* analyze, which runs up to its await
OpenComparison ==
    /\ ~modal.isOpen
    /\ modal.opens < MaxOpens
    /\ \E u \in ModalUrls :
          modal' = [modal EXCEPT
                      !.isOpen = TRUE, !.imageUrl = u, !.opens = modal.opens + 1,
                      !.step = "analyzing", !.error = FALSE,
                      !.pending = modal.pending
                                    \cup {Request("analyze", u, modal.opens + 1, 0)}]
    /\ UNCHANGED modalFrame

\* onClose or onAccept: setComparisonUrl(null)
CloseComparison ==
    /\ modal.isOpen
    /\ modal' = [modal EXCEPT !.isOpen = FALSE, !.imageUrl = ""]
    /\ UNCHANGED modalFrame

\* analyze after its await: setAnalysis and convert(data.recommendation) up to
\* its await, or setError
AnalyzeResponds ==
    /\ \E r \in modal.pending :
          /\ r.kind = "analyze"
          /\ \/ modal' = [modal EXCEPT
                            !.analysis = r.url, !.step = "converting",
                            !.pending = (modal.pending \ {r})
                                          \cup {Request("convert", r.url, r.opening, 0)}]
             \/ modal' = [modal EXCEPT !.error = TRUE, !.pending = modal.pending \ {r}]
    /\ UNCHANGED modalFrame

\* convert after its await: setResult and setStep('review'), or setError
ConvertResponds ==
    /\ \E r \in modal.pending :
          /\ r.kind = "convert"
          /\ \/ modal' = [modal EXCEPT
                            !.result = [url |-> r.url, opening |-> r.opening],
                            !.step = "review",
                            !.pending = modal.pending \ {r}]
             \/ modal' = [modal EXCEPT !.error = TRUE, !.pending = modal.pending \ {r}]
    /\ UNCHANGED modalFrame

\* the button 'Try Higher Quality': convert('quality-82') up to its await
TryHigherQuality ==
    /\ modal.isOpen
    /\ modal.step = "review"
    /\ modal.retries < MaxRetries
    /\ modal' = [modal EXCEPT
                   !.step = "converting", !.retries = modal.retries + 1,
                   !.pending = modal.pending
                                 \cup {Request("convert", modal.imageUrl, modal.opens,
                                               modal.retries + 1)}]
    /\ UNCHANGED modalFrame

ModalNext ==
    \/ OpenComparison
    \/ CloseComparison
    \/ AnalyzeResponds
    \/ ConvertResponds
    \/ TryHigherQuality

ModalSpec == ModalInit /\ [][ModalNext]_vars

\* C30: whenever the open dialog is at step 'review', the result it shows is
\* the answer to a convert request made for the current imageUrl in the
\* current opening.
C30_ReviewShowsCurrentImage ==
    (modal.isOpen /\ modal.step = "review") =>
        /\ modal.result.url = modal.imageUrl
        /\ modal.result.opening = modal.opens

====
